---- MODULE Spec2Model ----
(***************************************************************************)
(* Model of server.go: the user registry (users), the per-user rating      *)
(* maps (user.store) and the request handlers of /user and /rating, with   *)
(* every request handled by its own goroutine.                             *)
(*                                                                         *)
(* users.store is a map[userEmail]user: it holds user VALUES, so           *)
(* "existingUser, ok := u.store[usrEmail]" copies the struct.  The copy    *)
(* has its own sync.Mutex and shares only the rating map (a Go map is a    *)
(* reference).  Go maps are not safe for concurrent use: an unsynchronised *)
(* write that overlaps another map operation is a data race, whose         *)
(* outcomes are the runtime's fatal error ("concurrent map writes", ...),  *)
(* an undetected benign overlap, or a lost update.                         *)
(*                                                                         *)
(* Spec      the handlers of /user and /rating under any number of         *)
(*           requests per goroutine.                                       *)
(* SpecReq   the same handlers with one request followed from the fields   *)
(*           the client sent to its response.                              *)
(* SpecImage imageHandler and the image store (imageStore is used through  *)
(*           a pointer: its mutex is shared).                              *)
(***************************************************************************)
EXTENDS Integers, FiniteSets, TLC

\* ------------------------------------------------------------------ bounds
NumProcs == 2

Procs == 1..NumProcs

\* ---------------------------------------------------------------- constants
GET == "GET"
POST == "POST"
PUT == "PUT"
DELETE == "DELETE"
PATCH == "PATCH"
APPLICATION_JSON == "application/json"
TEXT_PLAIN == "text/plain"

StatusOK == 200
StatusCreated == 201
StatusNoContent == 204
StatusBadRequest == 400
StatusMethodNotAllowed == 405
StatusUnsupportedMediaType == 415

MinRating == 1
MaxRating == 5

\* the nil map of a zero-valued user (what a failed map lookup yields)
NilMap == 0

\* ------------------------------------------------------------------- inputs
Methods == {GET, POST, PUT, DELETE, PATCH}
ContentTypes == {APPLICATION_JSON, TEXT_PLAIN}
Emails == {"", "a@x.com"}
ImageURLs == {"", "img1", "img2"}
RatingInputs == {0, 1, 5, 6}

\* identities of rating maps: one per registered email plus one per request
\* that may still hold a map whose user was deleted
MapIds == 1..(Cardinality(Emails \ {""}) + NumProcs)

\* response bodies
MsgNone == ""
MsgMethod == "METHOD NOT ALLOWED"
MsgContentType == "need content-type 'application/json'"
MsgNeedEmail == "need field 'email'"
MsgNeedImageURL == "need field 'imageURL'"
MsgNeedRating == "need field 'rating'"
MsgUserExists == "user already exists"
MsgUserCreated == "user successfully created"
MsgUserDeleted == "user successfully deleted"
MsgUserNotExist == "user does not exist"
MsgImageExists == "image already exists - send PUT request to update rating"
MsgImageNotExistPut == "image doesn't exist - send POST request to save rating"
MsgImageNotExist == "image doesn't exist"
MsgSaved == "rating successfully saved"
MsgUpdated == "rating successfully updated"
MsgDeleted == "rating successfully deleted"
MsgRatings == "ratings"
MsgImage == "image"
MsgPanic == "panic: connection closed without a response"

VARIABLES
    usersMu,       \* users.Mutex: 0 when unlocked, else the request holding it
    usersStore,    \* users.store: email -> user value [mu, store]
    maps,          \* the rating maps alive on the heap: map id -> (imageURL -> rating)
    pc,            \* where each request's goroutine stands
    req,           \* the handler's locals: op, usrEmail, iURL, iRating
    existingUser,  \* the handler's local copy of the user value
    resp,          \* the response written for the request
    crashed,       \* the process has exited (fatal error, os.Exit)
    raw,           \* the one request that is followed from the wire: what the
                   \* client sent (proc is the goroutine serving it)
    imageStoreMu,  \* imageStore.Mutex: 0 when unlocked, else the request holding it
    imageStore,    \* imageStore.store: url -> image
    image          \* imageHandler's local image := images[0]

imageVars == <<imageStoreMu, imageStore, image>>

vars == <<usersMu, usersStore, maps, pc, req, existingUser, resp, crashed, raw,
          imageStoreMu, imageStore, image>>

EmptyMap == [u \in {} |-> 0]

NoReq == [op |-> "", email |-> "", url |-> "", rating |-> 0]
NoResp == [code |-> 0, msg |-> MsgNone, body |-> EmptyMap]
NoRaw ==
    [proc |-> 0, path |-> "", method |-> "", ct |-> "", email |-> "",
     url |-> "", rating |-> 0]
NoImage == [url |-> "", title |-> ""]
Response(code, msg) == [code |-> code, msg |-> msg, body |-> EmptyMap]

\* the zero value of user
ZeroUser == [mu |-> FALSE, store |-> NilMap]

\* the maps some variable still refers to; the others are garbage
Reachable(st, eu) ==
    {st[e].store : e \in DOMAIN st} \cup {eu[q].store : q \in Procs}

Collect(m, st, eu) == [id \in (DOMAIN m) \cap Reachable(st, eu) |-> m[id]]

\* map[k] = v on a map value
MapPut(d, k, v) == [x \in (DOMAIN d) \cup {k} |-> IF x = k THEN v ELSE d[x]]
\* delete(map, k)
MapDel(d, k) == [x \in (DOMAIN d) \ {k} |-> d[x]]

newUsers == [e \in {} |-> ZeroUser]

\* store: map[imageURL]Image{}
newImageStore == [u \in {} |-> NoImage]

\* a newUser that hands out one shared map instead of a new one
newUserShared(m) == CHOOSE id \in MapIds : \A other \in MapIds : id <= other

\* the identity of the map newUser() allocates: one no variable refers to
newUser(m) == CHOOSE id \in MapIds : id \notin DOMAIN m

Init ==
    /\ usersMu = 0
    /\ usersStore = newUsers
    /\ maps = [id \in {} |-> EmptyMap]
    /\ pc = [p \in Procs |-> "idle"]
    /\ req = [p \in Procs |-> NoReq]
    /\ existingUser = [p \in Procs |-> ZeroUser]
    /\ resp = [p \in Procs |-> NoResp]
    /\ crashed = FALSE
    /\ raw = NoRaw
    /\ imageStoreMu = 0
    /\ imageStore = newImageStore
    /\ image = [p \in Procs |-> NoImage]

\* ------------------------------------------------------- request validation
\* a range check that lets 0, the value of an omitted rating, through
badRatingFromZero(r) == r < 0 \/ r > MaxRating

\* iRating < 1 || iRating > 5
badRating(r) == r < MinRating \/ r > MaxRating

\* the content-type check of createUser, deleteUser and ratingHandlers
badContentType(ct) == ct # APPLICATION_JSON

Locals(op, email, url, rating) ==
    [op |-> op, email |-> email, url |-> url, rating |-> rating]

\* ------------------------------------------------------------------ actions
\* the handler returns before it touches the registry
Reject(p, code, msg) ==
    /\ pc' = [pc EXCEPT ![p] = "idle"]
    /\ req' = [req EXCEPT ![p] = NoReq]
    /\ resp' = [resp EXCEPT ![p] = Response(code, msg)]
    /\ existingUser' = [existingUser EXCEPT ![p] = ZeroUser]
    /\ UNCHANGED <<usersMu, usersStore, maps, crashed, raw, imageVars>>

\* the handler has validated its fields and goes on to u.Lock()
Accept(p, locals) ==
    /\ pc' = [pc EXCEPT ![p] = "usersLock"]
    /\ req' = [req EXCEPT ![p] = locals]
    /\ resp' = [resp EXCEPT ![p] = NoResp]
    /\ existingUser' = [existingUser EXCEPT ![p] = ZeroUser]
    /\ UNCHANGED <<usersMu, usersStore, maps, crashed, raw, imageVars>>

\* what a request may carry: any method, content type and body fields
AnyRequest ==
    [methods |-> Methods, cts |-> ContentTypes, emails |-> Emails,
     urls |-> ImageURLs, ratings |-> RatingInputs]

\* what the request r carries
Only(r) ==
    [methods |-> {r.method}, cts |-> {r.ct}, emails |-> {r.email},
     urls |-> {r.url}, ratings |-> {r.rating}]

\* createUser and deleteUser that look at the e-mail before the content type
userDecodeEmailFirst(p, op, in) ==
    \E email \in in.emails :
       IF email = ""
       THEN Reject(p, StatusBadRequest, MsgNeedEmail)
       ELSE \E ct \in in.cts :
               IF badContentType(ct)
               THEN Reject(p, StatusUnsupportedMediaType, MsgContentType)
               ELSE Accept(p, Locals(op, email, "", 0))

\* createUser and deleteUser up to u.Lock(), on a request drawn from in
userDecode(p, op, in) ==
    \E ct \in in.cts :
       IF badContentType(ct)
       THEN Reject(p, StatusUnsupportedMediaType, MsgContentType)
       ELSE \E email \in in.emails :
               IF email = ""
               THEN Reject(p, StatusBadRequest, MsgNeedEmail)
               ELSE Accept(p, Locals(op, email, "", 0))

\* getRatings up to u.Lock()
getRatingsDecode(p, in) ==
    \E email \in in.emails :
       IF email = ""
       THEN Reject(p, StatusBadRequest, MsgNeedEmail)
       ELSE Accept(p, Locals("getRatings", email, "", 0))

\* deleteRating up to u.Lock()
deleteRatingDecode(p, in) ==
    \E email \in in.emails :
       IF email = ""
       THEN Reject(p, StatusBadRequest, MsgNeedEmail)
       ELSE \E url \in in.urls :
               IF url = ""
               THEN Reject(p, StatusBadRequest, MsgNeedImageURL)
               ELSE Accept(p, Locals("deleteRating", email, url, 0))

\* saveRating and updateRating that check the rating before the image URL
ratingDecodeRatingFirst(p, op, in) ==
    \E email \in in.emails :
       IF email = ""
       THEN Reject(p, StatusBadRequest, MsgNeedEmail)
       ELSE \E rating \in in.ratings :
               IF badRating(rating)
               THEN Reject(p, StatusBadRequest, MsgNeedRating)
               ELSE \E url \in in.urls :
                       IF url = ""
                       THEN Reject(p, StatusBadRequest, MsgNeedImageURL)
                       ELSE Accept(p, Locals(op, email, url, rating))

\* saveRating and updateRating up to u.Lock()
ratingDecode(p, op, in) ==
    \E email \in in.emails :
       IF email = ""
       THEN Reject(p, StatusBadRequest, MsgNeedEmail)
       ELSE \E url \in in.urls :
               IF url = ""
               THEN Reject(p, StatusBadRequest, MsgNeedImageURL)
               ELSE \E rating \in in.ratings :
                       IF badRating(rating)
                       THEN Reject(p, StatusBadRequest, MsgNeedRating)
                       ELSE Accept(p, Locals(op, email, url, rating))

\* the switch of userHandlers
userHandlers(p, in) ==
    \E method \in in.methods :
       IF method = POST THEN userDecode(p, "createUser", in)
       ELSE IF method = DELETE THEN userDecode(p, "deleteUser", in)
       ELSE Reject(p, StatusMethodNotAllowed, MsgMethod)

\* ratingHandlers with the content-type check on the mutating methods only
ratingHandlersGetAnyType(p, in) ==
    \E method \in in.methods :
       IF method = GET THEN getRatingsDecode(p, in)
       ELSE \E ct \in in.cts :
               IF badContentType(ct)
               THEN Reject(p, StatusUnsupportedMediaType, MsgContentType)
               ELSE IF method = PUT THEN ratingDecode(p, "updateRating", in)
               ELSE IF method = POST THEN ratingDecode(p, "saveRating", in)
               ELSE IF method = DELETE THEN deleteRatingDecode(p, in)
               ELSE Reject(p, StatusMethodNotAllowed, MsgMethod)

\* the content-type check and the switch of ratingHandlers
ratingHandlers(p, in) ==
    \E ct \in in.cts :
       IF badContentType(ct)
       THEN Reject(p, StatusUnsupportedMediaType, MsgContentType)
       ELSE \E method \in in.methods :
               IF method = GET THEN getRatingsDecode(p, in)
               ELSE IF method = PUT THEN ratingDecode(p, "updateRating", in)
               ELSE IF method = POST THEN ratingDecode(p, "saveRating", in)
               ELSE IF method = DELETE THEN deleteRatingDecode(p, in)
               ELSE Reject(p, StatusMethodNotAllowed, MsgMethod)

\* a request to /user arrives and is handled up to u.Lock()
userRequest(p) ==
    /\ ~crashed
    /\ pc[p] = "idle"
    /\ userHandlers(p, AnyRequest)

\* a request to /rating arrives and is handled up to u.Lock()
ratingRequest(p) ==
    /\ ~crashed
    /\ pc[p] = "idle"
    /\ ratingHandlers(p, AnyRequest)

\* a Lock that never waits
MutexFreeAlways(mu) == TRUE

\* sync.Mutex.Lock blocks until the mutex is unlocked
MutexFree(mu) == mu = 0

\* u.Lock()
usersLock(p) ==
    /\ ~crashed
    /\ pc[p] = "usersLock"
    /\ MutexFree(usersMu)
    /\ usersMu' = p
    /\ pc' = [pc EXCEPT ![p] =
                 IF req[p].op = "createUser" THEN "createUserLookup"
                 ELSE IF req[p].op = "deleteUser" THEN "deleteUserBody"
                 ELSE "resolveUser"]
    /\ UNCHANGED <<usersStore, maps, req, existingUser, resp, crashed, raw, imageVars>>

\* the handler returns: its response is out, its locals are gone (mu is what
\* its copy of the user's mutex holds at the return)
Return(p, code, msg, body, mu, m, st) ==
    LET eu == [existingUser EXCEPT ![p] = [mu |-> mu, store |-> NilMap]]
    IN /\ resp' = [resp EXCEPT ![p] = [code |-> code, msg |-> msg, body |-> body]]
       /\ pc' = [pc EXCEPT ![p] = "idle"]
       /\ req' = [req EXCEPT ![p] = NoReq]
       /\ existingUser' = eu
       /\ usersStore' = st
       /\ maps' = Collect(m, st, eu)
       /\ UNCHANGED <<crashed, raw, imageVars>>

\* createUser without the existence check: it overwrites silently
createUserConflictNever(st, email) == FALSE

\* _, ok := u.store[usrEmail] of createUser: the email is taken
createUserConflict(st, email) == email \in DOMAIN st

\* createUser: if _, ok := u.store[usrEmail]; ok { 400 } (deferred Unlock)
createUserLookup(p) ==
    /\ ~crashed
    /\ pc[p] = "createUserLookup"
    /\ IF createUserConflict(usersStore, req[p].email)
       THEN /\ usersMu' = 0
            /\ Return(p, StatusBadRequest, MsgUserExists, EmptyMap, FALSE,
                      maps, usersStore)
       ELSE /\ pc' = [pc EXCEPT ![p] = "createUserInsert"]
            /\ UNCHANGED <<usersMu, usersStore, maps, req, existingUser,
                           resp, crashed, raw, imageVars>>

\* createUser: u.store[usrEmail] = newUser(); 201 (deferred Unlock)
createUserInsert(p) ==
    /\ ~crashed
    /\ pc[p] = "createUserInsert"
    /\ LET id == newUser(maps)
           st == MapPut(usersStore, req[p].email, [mu |-> FALSE, store |-> id])
           m == MapPut(maps, id, EmptyMap)
       IN /\ usersMu' = 0
          /\ Return(p, StatusCreated, MsgUserCreated, EmptyMap, FALSE, m, st)

\* a deleteUser that reports success and leaves the user in place
deleteUserKeeps(st, email) == st

\* if _, ok := u.store[usrEmail]; ok { delete(u.store, usrEmail) }
deleteUser(st, email) ==
    IF email \in DOMAIN st THEN MapDel(st, email) ELSE st

\* deleteUser: the guarded delete; 204 (deferred Unlock)
deleteUserBody(p) ==
    /\ ~crashed
    /\ pc[p] = "deleteUserBody"
    /\ usersMu' = 0
    /\ Return(p, StatusNoContent, MsgUserDeleted, EmptyMap, FALSE, maps,
              deleteUser(usersStore, req[p].email))

\* a lookup whose ok is not looked at: an absent user goes on as the zero value
lookupUserIgnoreOk(st, email) ==
    [ok |-> TRUE, user |-> IF email \in DOMAIN st THEN st[email] ELSE ZeroUser]

\* existingUser, ok := u.store[usrEmail]: a copy of the stored user value, or
\* the zero value when the key is absent
lookupUser(st, email) ==
    IF email \in DOMAIN st
    THEN [ok |-> TRUE, user |-> st[email]]
    ELSE [ok |-> FALSE, user |-> ZeroUser]

\* existingUser, ok := u.store[usrEmail]; u.Unlock(); if !ok { 400 }
resolveUser(p) ==
    /\ ~crashed
    /\ pc[p] = "resolveUser"
    /\ usersMu' = 0
    /\ IF lookupUser(usersStore, req[p].email).ok
       THEN /\ existingUser' = [existingUser EXCEPT ![p] =
                                   lookupUser(usersStore, req[p].email).user]
            /\ pc' = [pc EXCEPT ![p] = "existingUserLock"]
            /\ UNCHANGED <<usersStore, maps, req, resp, crashed, raw, imageVars>>
       ELSE Return(p, StatusBadRequest, MsgUserNotExist, EmptyMap, FALSE,
                   maps, usersStore)

\* existingUser.Lock(): the mutex of the handler's own copy of the user
existingUserLock(p) ==
    /\ ~crashed
    /\ pc[p] = "existingUserLock"
    /\ ~existingUser[p].mu
    /\ existingUser' = [existingUser EXCEPT ![p].mu = TRUE]
    /\ pc' = [pc EXCEPT ![p] =
                 IF req[p].op = "getRatings" THEN "encode" ELSE "mapAccess"]
    /\ UNCHANGED <<usersMu, usersStore, maps, req, resp, crashed, raw, imageVars>>

\* saveRating as an upsert: an existing rating is overwritten
lookupFailsSaveUpserts(op, ok) == IF op = "saveRating" THEN FALSE ELSE ~ok

\* updateRating as an upsert and deleteRating as a silent no-op
lookupFailsNever(op, ok) == IF op = "saveRating" THEN ok ELSE FALSE

\* the existence check on the rating: saveRating fails when the image has a
\* rating (ok), updateRating and deleteRating when it has none (!ok)
lookupFails(op, ok) == IF op = "saveRating" THEN ok ELSE ~ok

\* a handler that writes the rating first and checks afterwards: its error
\* branch has already changed the map
mapAccessWriteFirst(p) ==
    /\ ~crashed
    /\ pc[p] = "mapAccess"
    /\ LET ok == req[p].url \in DOMAIN maps[existingUser[p].store]
           fails == lookupFails(req[p].op, ok)
           msg == IF req[p].op = "saveRating" THEN MsgImageExists
                  ELSE IF req[p].op = "updateRating" THEN MsgImageNotExistPut
                  ELSE MsgImageNotExist
       IN IF fails
          THEN /\ Return(p, StatusBadRequest, msg, EmptyMap, existingUser[p].mu,
                         [maps EXCEPT ![existingUser[p].store] =
                             MapPut(@, req[p].url, req[p].rating)],
                         usersStore)
               /\ UNCHANGED usersMu
          ELSE /\ pc' = [pc EXCEPT ![p] = "mapWrite"]
               /\ UNCHANGED <<usersMu, usersStore, maps, req, existingUser,
                              resp, crashed, raw, imageVars>>

\* _, ok := existingUser.store[iURL] of saveRating, updateRating, deleteRating:
\* the error branch returns without existingUser.Unlock()
mapAccess(p) ==
    /\ ~crashed
    /\ pc[p] = "mapAccess"
    /\ LET ok == req[p].url \in DOMAIN maps[existingUser[p].store]
           fails == lookupFails(req[p].op, ok)
           msg == IF req[p].op = "saveRating" THEN MsgImageExists
                  ELSE IF req[p].op = "updateRating" THEN MsgImageNotExistPut
                  ELSE MsgImageNotExist
       IN IF fails
          THEN /\ Return(p, StatusBadRequest, msg, EmptyMap, existingUser[p].mu,
                         maps, usersStore)
               /\ UNCHANGED usersMu
          ELSE /\ pc' = [pc EXCEPT ![p] = "mapWrite"]
               /\ UNCHANGED <<usersMu, usersStore, maps, req, existingUser,
                              resp, crashed, raw, imageVars>>

\* p is inside a map operation while another request is writing the same map
InMapOp(p) == pc[p] \in {"mapAccess", "mapWrite", "mapWriteEnd", "encode"}

Racing(p) ==
    /\ InMapOp(p)
    /\ \E q \in Procs \ {p} :
          /\ pc[q] = "mapWriteEnd"
          /\ existingUser[q].store = existingUser[p].store

\* the map write (existingUser.store[iURL] = iRating, delete(...)) starts
mapWrite(p) ==
    /\ ~crashed
    /\ pc[p] = "mapWrite"
    /\ pc' = [pc EXCEPT ![p] = "mapWriteEnd"]
    /\ UNCHANGED <<usersMu, usersStore, maps, req, existingUser, resp, crashed, raw, imageVars>>

\* a write that replaces the whole map by the one entry
WrittenAlone(p, d) ==
    IF req[p].op = "deleteRating" THEN MapDel(d, req[p].url)
    ELSE MapPut(EmptyMap, req[p].url, req[p].rating)

\* the result of the write on map contents d
Written(p, d) ==
    IF req[p].op = "deleteRating" THEN MapDel(d, req[p].url)
    ELSE MapPut(d, req[p].url, req[p].rating)

\* the map write ends, then existingUser.Unlock() and the success response.
\* A write that overlaps another write of the same map may be lost.
mapWriteEnd(p) ==
    /\ ~crashed
    /\ pc[p] = "mapWriteEnd"
    /\ \E lost \in {FALSE, Racing(p)} :
          /\ Return(p,
                    IF req[p].op = "saveRating" THEN StatusCreated ELSE StatusNoContent,
                    IF req[p].op = "saveRating" THEN MsgSaved
                    ELSE IF req[p].op = "updateRating" THEN MsgUpdated ELSE MsgDeleted,
                    EmptyMap, FALSE,
                    IF lost THEN maps
                    ELSE [maps EXCEPT ![existingUser[p].store] =
                             Written(p, maps[existingUser[p].store])],
                    usersStore)
          /\ UNCHANGED usersMu

\* getRatings: json.NewEncoder(w).Encode(existingUser.store); Unlock
encode(p) ==
    /\ ~crashed
    /\ pc[p] = "encode"
    /\ Return(p, StatusOK, MsgRatings, maps[existingUser[p].store], FALSE,
              maps, usersStore)
    /\ UNCHANGED usersMu

\* the runtime detects the overlap: fatal error, the process exits
fatal(p) ==
    /\ ~crashed
    /\ Racing(p)
    /\ crashed' = TRUE
    /\ UNCHANGED <<usersMu, usersStore, maps, pc, req, existingUser, resp, raw,
                   imageVars>>

Next ==
    \E p \in Procs :
       \/ userRequest(p)
       \/ ratingRequest(p)
       \/ usersLock(p)
       \/ createUserLookup(p)
       \/ createUserInsert(p)
       \/ deleteUserBody(p)
       \/ resolveUser(p)
       \/ existingUserLock(p)
       \/ mapAccess(p)
       \/ mapWrite(p)
       \/ mapWriteEnd(p)
       \/ encode(p)
       \/ fatal(p)

Spec == Init /\ [][Next]_vars

\* ------------------------------------------------- one request from the wire
\* The same handlers, with one request followed from what the client sent to
\* its response.  Every goroutine serves one request; the registry starts
\* empty or with a user already registered.
Paths == {"/user", "/rating"}

\* the rating maps a registered user may start with
SeedMaps == {EmptyMap, MapPut(EmptyMap, "img1", MaxRating)}

InitReq ==
    /\ usersMu = 0
    /\ \E e \in Emails \ {""} :
          usersStore \in {newUsers,
                          [x \in {e} |-> [mu |-> FALSE, store |-> newUser(<< >>)]]}
    /\ \E d \in SeedMaps :
          maps = [id \in {usersStore[e].store : e \in DOMAIN usersStore} |-> d]
    /\ pc = [p \in Procs |-> "idle"]
    /\ req = [p \in Procs |-> NoReq]
    /\ existingUser = [p \in Procs |-> ZeroUser]
    /\ resp = [p \in Procs |-> NoResp]
    /\ crashed = FALSE
    /\ raw = NoRaw
    /\ imageStoreMu = 0
    /\ imageStore = newImageStore
    /\ image = [p \in Procs |-> NoImage]

\* the server reads the followed request off the connection
receive(p) ==
    /\ ~crashed
    /\ pc[p] = "idle"
    /\ resp[p] = NoResp
    /\ raw = NoRaw
    /\ \E path \in Paths, method \in Methods, ct \in ContentTypes,
          email \in Emails, url \in ImageURLs, rating \in RatingInputs :
          raw' = [proc |-> p, path |-> path, method |-> method, ct |-> ct,
                  email |-> email, url |-> url, rating |-> rating]
    /\ pc' = [pc EXCEPT ![p] = "received"]
    /\ UNCHANGED <<usersMu, usersStore, maps, req, existingUser, resp, crashed,
                   imageVars>>

\* http.HandleFunc("/user", u.userHandlers), ("/rating", u.ratingHandlers):
\* the mux calls the handler of the request's path
mux(p) ==
    /\ ~crashed
    /\ pc[p] = "received"
    /\ raw.proc = p
    /\ IF raw.path = "/user"
       THEN userHandlers(p, Only(raw))
       ELSE ratingHandlers(p, Only(raw))

\* the one request to /user of another goroutine
firstUserRequest(p) == resp[p] = NoResp /\ userRequest(p)

\* the one request to /rating of another goroutine
firstRatingRequest(p) == resp[p] = NoResp /\ ratingRequest(p)

NextReq ==
    \E p \in Procs :
       \/ receive(p)
       \/ mux(p)
       \/ firstUserRequest(p)
       \/ firstRatingRequest(p)
       \/ usersLock(p)
       \/ createUserLookup(p)
       \/ createUserInsert(p)
       \/ deleteUserBody(p)
       \/ resolveUser(p)
       \/ existingUserLock(p)
       \/ mapAccess(p)
       \/ mapWrite(p)
       \/ mapWriteEnd(p)
       \/ encode(p)
       \/ fatal(p)

SpecReq == InitReq /\ [][NextReq]_vars

\* ------------------------------------------------------------------ /image
\* imageHandler and the image store, with the provider as a black box.
ProviderURLs == {"apod1", "apod2"}
Titles == {"t1", "t2"}

\* the image records the provider may send
Images == {[url |-> u, title |-> t] : u \in ProviderURLs, t \in Titles}

\* what http.Get and the decoding of its body can come to: err != nil; a body
\* that is not a JSON array of images; an array, empty or of one image
ProviderResults ==
    {[err |-> TRUE, decodes |-> FALSE, images |-> << >>],
     [err |-> FALSE, decodes |-> FALSE, images |-> << >>],
     [err |-> FALSE, decodes |-> TRUE, images |-> << >>]}
    \cup {[err |-> FALSE, decodes |-> TRUE, images |-> <<i>>] : i \in Images}

\* a panic in a handler: net/http recovers it and closes the connection, no
\* status line is written
Panicked == [code |-> 0, msg |-> MsgPanic, body |-> EmptyMap]

\* a request to /image arrives: resp, err := http.Get(i.url) is under way
imageHandler(p) ==
    /\ ~crashed
    /\ pc[p] = "idle"
    /\ pc' = [pc EXCEPT ![p] = "httpGet"]
    /\ resp' = [resp EXCEPT ![p] = NoResp]
    /\ UNCHANGED <<usersMu, usersStore, maps, req, existingUser, crashed, raw,
                   imageVars>>

\* http.Get returns: os.Exit(1) on err; panic(err) on a body that does not
\* decode; images[0] panics on an empty array; else image := images[0]
httpGet(p) ==
    /\ ~crashed
    /\ pc[p] = "httpGet"
    /\ \E r \in ProviderResults :
          IF r.err
          THEN /\ crashed' = TRUE
               /\ UNCHANGED <<pc, resp, image>>
          ELSE IF ~r.decodes \/ r.images = << >>
          THEN /\ pc' = [pc EXCEPT ![p] = "idle"]
               /\ resp' = [resp EXCEPT ![p] = Panicked]
               /\ UNCHANGED <<crashed, image>>
          ELSE /\ pc' = [pc EXCEPT ![p] = "imageStoreLock"]
               /\ image' = [image EXCEPT ![p] = r.images[1]]
               /\ UNCHANGED <<crashed, resp>>
    /\ UNCHANGED <<usersMu, usersStore, maps, req, existingUser, raw,
                   imageStoreMu, imageStore>>

\* i.Lock()
imageStoreLock(p) ==
    /\ ~crashed
    /\ pc[p] = "imageStoreLock"
    /\ MutexFree(imageStoreMu)
    /\ imageStoreMu' = p
    /\ pc' = [pc EXCEPT ![p] = "imageStorePut"]
    /\ UNCHANGED <<usersMu, usersStore, maps, req, existingUser, resp, crashed,
                   raw, imageStore, image>>

\* a store that keeps the entry a url already has
storeImageKeepsFirst(st, i) ==
    IF i.url \in DOMAIN st THEN st ELSE MapPut(st, i.url, i)

\* url := imageURL(image.Url); i.store[url] = image
storeImage(st, i) == MapPut(st, i.url, i)

\* the store, the 200 response with the image, and the deferred i.Unlock()
imageStorePut(p) ==
    /\ ~crashed
    /\ pc[p] = "imageStorePut"
    /\ imageStore' = storeImage(imageStore, image[p])
    /\ resp' = [resp EXCEPT ![p] =
                   [code |-> StatusOK, msg |-> MsgImage, body |-> image[p]]]
    /\ imageStoreMu' = 0
    /\ pc' = [pc EXCEPT ![p] = "idle"]
    /\ image' = [image EXCEPT ![p] = NoImage]
    /\ UNCHANGED <<usersMu, usersStore, maps, req, existingUser, crashed, raw>>

NextImage ==
    \E p \in Procs :
       \/ imageHandler(p)
       \/ httpGet(p)
       \/ imageStoreLock(p)
       \/ imageStorePut(p)

SpecImage == Init /\ [][NextImage]_vars

\* ------------------------------------------------------------------ claims
\* the rating map request p works on
Rec(p) == existingUser[p].store

\* p is between existingUser.Lock() and existingUser.Unlock()
InCritical(p) == existingUser[p].mu /\ InMapOp(p)

\* p takes the step that leaves label l
Leaves(p, l) == pc[p] = l /\ pc'[p] # l

\* p returns (its response is written) in this step
Returns(p) == pc[p] # "idle" /\ pc'[p] = "idle"

\* every other request working on p's rating map is a saveRating for another
\* image URL
OnlyDistinctSaves(p) ==
    \A q \in Procs \ {p} :
       (Rec(q) = Rec(p)) =>
          (req[q].op = "saveRating" /\ req[q].url # req[p].url)

\* C1: concurrent createRating calls on one user with pairwise distinct image
\* URLs all return Created and every one of their (url, rating) pairs is in
\* the user's rating collection afterwards: no call is aborted, and the
\* write of one call never drops the entry of another.
C1_AllCreatedAllStored ==
    [][\A p \in Procs :
          (/\ req[p].op = "saveRating"
           /\ pc[p] \in {"mapWrite", "mapWriteEnd"}
           /\ OnlyDistinctSaves(p))
          => /\ ~crashed'
             /\ Returns(p) =>
                   /\ resp'[p].code = StatusCreated
                   /\ Rec(p) \in DOMAIN maps' =>
                         maps'[Rec(p)] =
                            MapPut(maps[Rec(p)], req[p].url, req[p].rating)]_vars

\* C2: the per-user lock gives mutual exclusion: no two requests are between
\* Lock and Unlock of the user record that owns the same rating collection.
C2_MutualExclusion ==
    \A p, q \in Procs :
       (p # q /\ InCritical(p) /\ InCritical(q)) => Rec(p) # Rec(q)

\* C3: concurrent createUser calls with one absent email: a call returns
\* Created exactly when the email is absent at its return, which makes it
\* present (so a second Created needs the email deleted in between); every
\* other call returns 400 "already exists" and leaves the registry alone; and
\* no two createUser calls are between their lookup and their return together.
C3_ExactlyOneCreated ==
    [][\A p \in Procs :
          /\ (req[p].op = "createUser" /\ Returns(p)) =>
                IF req[p].email \in DOMAIN usersStore
                THEN /\ resp'[p] = Response(StatusBadRequest, MsgUserExists)
                     /\ usersStore' = usersStore
                ELSE /\ resp'[p] = Response(StatusCreated, MsgUserCreated)
                     /\ DOMAIN usersStore' = DOMAIN usersStore \cup {req[p].email}
          /\ \A q \in Procs \ {p} :
                ~(/\ pc[p] \in {"createUserLookup", "createUserInsert"}
                  /\ pc[q] \in {"createUserLookup", "createUserInsert"})]_vars

\* two createUser calls for the same absent email are in flight, one past its
\* lookup and the other waiting for the registry lock
C3_Witness ==
    \E p, q \in Procs :
       /\ p # q
       /\ pc[p] = "createUserInsert"
       /\ pc[q] = "usersLock"
       /\ req[q].op = "createUser"
       /\ req[q].email = req[p].email

C5_UserExistsAtInsert ==
    [][\A p \in Procs :
          (req[p].op = "saveRating" /\ Leaves(p, "mapWriteEnd")) =>
             req[p].email \in DOMAIN usersStore]_vars

\* C5 amended: e is a key of the registry at the moment createRating looks it
\* up under the registry lock (else it returns "user does not exist" and
\* writes nothing); it keeps the map it found there, and its insert changes
\* that map and no other.
C5_UserExistsAtLookup ==
    [][\A p \in Procs :
          req[p].op = "saveRating" =>
             /\ Leaves(p, "resolveUser") =>
                   IF req[p].email \in DOMAIN usersStore
                   THEN /\ ~Returns(p)
                        /\ existingUser'[p].store = usersStore[req[p].email].store
                   ELSE /\ Returns(p)
                        /\ resp'[p] = Response(StatusBadRequest, MsgUserNotExist)
                        /\ maps' = maps
             /\ (pc[p] \in {"existingUserLock", "mapAccess", "mapWrite"}
                 /\ ~Returns(p)) =>
                   existingUser'[p].store = Rec(p)
             /\ pc[p] \in {"existingUserLock", "mapAccess", "mapWrite",
                           "mapWriteEnd"} => Rec(p) \in DOMAIN maps
             /\ Leaves(p, "mapWriteEnd") =>
                   \A id \in (DOMAIN maps') \ {Rec(p)} : maps'[id] = maps[id]]_vars

\* a createRating is about to insert into the map of a user that deleteUser
\* has removed since the lookup
C5_Witness ==
    \E p \in Procs :
       /\ req[p].op = "saveRating"
       /\ pc[p] = "mapWriteEnd"
       /\ req[p].email \notin DOMAIN usersStore

\* C6: createRating for a pair that has a rating returns 400 "already exists"
\* and leaves the stored value as it is; the lock it leaves locked is its own
\* copy, so a following updateRating is not held up: it finds the rating,
\* goes on to write, returns 204 and the stored value is its rating.
C6_CreateTwiceThenUpdate ==
    [][\A p \in Procs :
          /\ (req[p].op = "saveRating" /\ Leaves(p, "mapAccess")
              /\ req[p].url \in DOMAIN maps[Rec(p)]) =>
                /\ resp'[p] = Response(StatusBadRequest, MsgImageExists)
                /\ \A id \in DOMAIN maps' : maps'[id] = maps[id]
          /\ pc[p] = "existingUserLock" => ~existingUser[p].mu
          /\ (req[p].op = "updateRating" /\ Leaves(p, "mapAccess")
              /\ req[p].url \in DOMAIN maps[Rec(p)]) =>
                pc'[p] = "mapWrite"
          /\ (req[p].op = "updateRating" /\ Leaves(p, "mapWriteEnd")
              /\ ~Racing(p)) =>
                /\ resp'[p] = Response(StatusNoContent, MsgUpdated)
                /\ Rec(p) \in DOMAIN maps' =>
                      /\ req[p].url \in DOMAIN maps'[Rec(p)]
                      /\ maps'[Rec(p)][req[p].url] = req[p].rating]_vars

\* a createRating has failed with "already exists", its copy of the lock left
\* locked, and an updateRating on the same user is finishing its write
C6_Witness ==
    \E p, q \in Procs :
       /\ pc[p] = "idle"
       /\ resp[p] = Response(StatusBadRequest, MsgImageExists)
       /\ existingUser[p].mu
       /\ req[q].op = "updateRating"
       /\ pc[q] = "mapWriteEnd"
       /\ req[q].email \in DOMAIN usersStore
       /\ Rec(q) = usersStore[req[q].email].store
       /\ maps[Rec(q)][req[q].url] # req[q].rating

\* C7: createRating for a pair without a rating returns 201, with no other
\* write overlapping it the map is then the map before plus url -> rating,
\* and getRatings resolves the registered map and returns 200 with that
\* map's contents.
C7_CreateThenList ==
    [][\A p \in Procs :
          /\ (req[p].op = "saveRating" /\ Leaves(p, "mapAccess")
              /\ req[p].url \notin DOMAIN maps[Rec(p)]) =>
                pc'[p] = "mapWrite"
          /\ (req[p].op = "saveRating" /\ Leaves(p, "mapWriteEnd")
              /\ ~Racing(p)) =>
                /\ resp'[p] = Response(StatusCreated, MsgSaved)
                /\ Rec(p) \in DOMAIN maps' =>
                      maps'[Rec(p)] =
                         MapPut(maps[Rec(p)], req[p].url, req[p].rating)
          /\ (req[p].op = "getRatings" /\ Leaves(p, "resolveUser")
              /\ req[p].email \in DOMAIN usersStore) =>
                existingUser'[p].store = usersStore[req[p].email].store
          /\ (req[p].op = "getRatings" /\ Leaves(p, "encode")) =>
                resp'[p] = [code |-> StatusOK, msg |-> MsgRatings,
                            body |-> maps[Rec(p)]]]_vars

\* a createRating has returned 201 and a getRatings has returned a listing
\* with two ratings in it
C7_Witness ==
    \E p, q \in Procs :
       /\ resp[p] = Response(StatusCreated, MsgSaved)
       /\ resp[q].code = StatusOK
       /\ Cardinality(DOMAIN resp[q].body) = 2

\* C8: updateRating and deleteRating for a pair without a rating return 400
\* "doesn't exist" and change no map: no upsert, no silent no-op.
C8_MissingRatingNotFound ==
    [][\A p \in Procs :
          (req[p].op \in {"updateRating", "deleteRating"}
           /\ Leaves(p, "mapAccess")
           /\ req[p].url \notin DOMAIN maps[Rec(p)]) =>
             /\ resp'[p] = Response(StatusBadRequest,
                                    IF req[p].op = "updateRating"
                                    THEN MsgImageNotExistPut ELSE MsgImageNotExist)
             /\ \A id \in DOMAIN maps' : maps'[id] = maps[id]]_vars

\* an updateRating and a deleteRating have both come back with "doesn't exist"
C8_Witness ==
    \E p, q \in Procs :
       /\ resp[p] = Response(StatusBadRequest, MsgImageNotExistPut)
       /\ resp[q] = Response(StatusBadRequest, MsgImageNotExist)

\* C9: every stored rating is in 1..5, and so is the rating of every
\* createRating or updateRating that got past its validation.
C9_RatingsInRange ==
    /\ \A id \in DOMAIN maps : \A u \in DOMAIN maps[id] :
          maps[id][u] \in MinRating..MaxRating
    /\ \A p \in Procs :
          (pc[p] # "idle" /\ req[p].op \in {"saveRating", "updateRating"}) =>
             req[p].rating \in MinRating..MaxRating

\* a request was rejected for its rating while a rating is stored
C9_Witness ==
    \E p \in Procs :
       /\ resp[p] = Response(StatusBadRequest, MsgNeedRating)
       /\ \E id \in DOMAIN maps : maps[id] # EmptyMap

\* C10: createUser for an email that is a registry key returns 400 "already
\* exists"; the registry and every rating map are as before.
C10_DuplicateUserRejected ==
    [][\A p \in Procs :
          (Leaves(p, "createUserLookup")
           /\ req[p].email \in DOMAIN usersStore) =>
             /\ resp'[p] = Response(StatusBadRequest, MsgUserExists)
             /\ usersStore' = usersStore
             /\ maps' = maps]_vars

\* a createUser was rejected as a duplicate and the user still has ratings
C10_Witness ==
    \E p \in Procs, e \in DOMAIN usersStore :
       /\ resp[p] = Response(StatusBadRequest, MsgUserExists)
       /\ maps[usersStore[e].store] # EmptyMap

\* C11: deleteUser is idempotent. It always answers 204; on an e-mail that is
\* not a user it leaves the registry and every rating map exactly as they
\* were (so a second deleteUser gives the same registry and the same status
\* as the first), and on an e-mail that is a user - createUser(e) came before
\* - it removes just that key.
C11_DeleteUserIdempotent ==
    [][\A p \in Procs :
          Leaves(p, "deleteUserBody") =>
             /\ resp'[p] = Response(StatusNoContent, MsgUserDeleted)
             /\ DOMAIN usersStore' = (DOMAIN usersStore) \ {req[p].email}
             /\ \A e \in DOMAIN usersStore' : usersStore'[e] = usersStore[e]
             /\ (req[p].email \notin DOMAIN usersStore =>
                    usersStore' = usersStore /\ maps' = maps)]_vars

\* a deleteUser has succeeded, the user is gone, and a second deleteUser of
\* the same e-mail holds the registry lock and is about to delete again
C11_Witness ==
    \E p, q \in Procs :
       /\ p # q
       /\ resp[p] = Response(StatusNoContent, MsgUserDeleted)
       /\ pc[p] = "idle"
       /\ pc[q] = "deleteUserBody"
       /\ req[q].email \notin DOMAIN usersStore

\* the step is one of request p
Acts(p) ==
    \/ pc'[p] # pc[p]
    \/ req'[p] # req[p]
    \/ resp'[p] # resp[p]
    \/ existingUser'[p] # existingUser[p]

\* C12: fail fast, no partial writes. A step in which a user or rating
\* request is answered 400 or 415 - a validation, not-found or conflict
\* failure of any operation - leaves the registry and the contents of every
\* rating map that is still in use exactly as they were.
C12_FailFast ==
    [][\A p \in Procs :
          (/\ Acts(p)
           /\ pc'[p] = "idle"
           /\ resp'[p].code \in {StatusBadRequest, StatusUnsupportedMediaType})
          => /\ usersStore' = usersStore
             /\ \A id \in DOMAIN maps' : maps'[id] = maps[id]
             /\ \A e \in DOMAIN usersStore : usersStore[e].store \in DOMAIN maps']_vars

\* one request has been refused on its content type and another on a rating
\* conflict or a missing rating, while a user with a rating is in the registry
C12_Witness ==
    \E p, q \in Procs :
       /\ resp[p].code = StatusUnsupportedMediaType
       /\ resp[q].msg \in {MsgImageExists, MsgImageNotExistPut, MsgImageNotExist}
       /\ \E e \in DOMAIN usersStore : maps[usersStore[e].store] # EmptyMap

\* C18: of the createRating calls that run concurrently for one user and one
\* image URL that has no rating, exactly one returns Created: a saveRating
\* that returns 201 stores into a map that had no rating for its URL, and the
\* stored value is its own rating.
C18_OneCreatedPerURL ==
    [][\A p \in Procs :
          (Leaves(p, "mapWriteEnd") /\ req[p].op = "saveRating" /\ Returns(p))
          => /\ req[p].url \notin DOMAIN maps[Rec(p)]
             /\ (Rec(p) \in DOMAIN maps' =>
                    /\ req[p].url \in DOMAIN maps'[Rec(p)]
                    /\ maps'[Rec(p)][req[p].url] = req[p].rating)]_vars

\* C19: a request that has returned holds no lock: neither the registry lock
\* nor the lock of the user it worked on.
C19_LocksReleased ==
    \A p \in Procs :
       pc[p] = "idle" => (usersMu # p /\ ~existingUser[p].mu)

\* a step of a request that has started
Progress ==
    \E p \in Procs :
       \/ usersLock(p)
       \/ createUserLookup(p)
       \/ createUserInsert(p)
       \/ deleteUserBody(p)
       \/ resolveUser(p)
       \/ existingUserLock(p)
       \/ mapAccess(p)
       \/ mapWrite(p)
       \/ mapWriteEnd(p)
       \/ encode(p)

\* C20: no request blocks forever: as long as a request has started and not
\* returned, some started request has a step to take, so that under fair
\* scheduling every one of them reaches its response.
C20_NoRequestBlocked ==
    (\E p \in Procs : pc[p] # "idle") => ENABLED Progress

\* the followed request r changes the registry or a rating
Mutating(r) ==
    \/ r.path = "/user" /\ r.method \in {POST, DELETE}
    \/ r.path = "/rating" /\ r.method \in {POST, PUT, DELETE}

\* the followed request r is one of the four rating operations, sent as JSON
RatingOp(r) ==
    /\ r.path = "/rating"
    /\ r.method \in {GET, POST, PUT, DELETE}
    /\ r.ct = APPLICATION_JSON

\* C13: a mutating request (POST or DELETE /user, POST, PUT or DELETE
\* /rating) whose content type is not application/json is answered 415
\* whatever its e-mail, image URL and rating are, in the handler's first step:
\* no field has been decoded, no lock taken, no store touched.
C13_UnsupportedMediaTypeFirst ==
    [][\A p \in Procs :
          (Leaves(p, "received") /\ Mutating(raw) /\ raw.ct # APPLICATION_JSON)
          => /\ resp'[p] = Response(StatusUnsupportedMediaType, MsgContentType)
             /\ pc'[p] = "idle"
             /\ req'[p] = NoReq
             /\ UNCHANGED <<usersMu, usersStore, maps>>]_vars

\* a POST /rating sent as text/plain with an empty e-mail and a rating out of
\* range has been answered 415
C13_Witness ==
    /\ raw.path = "/rating"
    /\ raw.method = POST
    /\ raw.ct = TEXT_PLAIN
    /\ raw.email = ""
    /\ raw.rating > MaxRating
    /\ pc[raw.proc] = "idle"
    /\ resp[raw.proc].code = StatusUnsupportedMediaType

C17_UserNotFoundFirst ==
    [][\A p \in Procs :
          (/\ Returns(p)
           /\ pc[p] \in {"received", "resolveUser"}
           /\ raw.proc = p
           /\ RatingOp(raw)
           /\ raw.email # ""
           /\ raw.email \notin DOMAIN usersStore)
          => resp'[p] = Response(StatusBadRequest, MsgUserNotExist)]_vars

\* C17 (amended): the rating operations validate all their fields before
\* they resolve the user.  With a non-empty e-mail, createRating, updateRating
\* and deleteRating are answered 400 "need imageURL" for an empty image URL,
\* then createRating and updateRating 400 "need rating" for a rating outside
\* 1..5, whether or not the user exists; only a request whose fields are all
\* valid looks the user up, and it is answered UserNotFound, with nothing
\* changed, when the e-mail names no registered user at that lookup.
C17_ValidationThenUserNotFound ==
    [][\A p \in Procs :
          (raw.proc = p /\ RatingOp(raw) /\ raw.email # "")
          => /\ Leaves(p, "received") =>
                   IF raw.method # GET /\ raw.url = ""
                   THEN /\ pc'[p] = "idle"
                        /\ resp'[p] = Response(StatusBadRequest, MsgNeedImageURL)
                   ELSE IF /\ raw.method \in {POST, PUT}
                           /\ raw.rating \notin MinRating..MaxRating
                   THEN /\ pc'[p] = "idle"
                        /\ resp'[p] = Response(StatusBadRequest, MsgNeedRating)
                   ELSE /\ pc'[p] = "usersLock"
                        /\ req'[p].email = raw.email
             /\ (Leaves(p, "resolveUser") /\ raw.email \notin DOMAIN usersStore)
                => /\ pc'[p] = "idle"
                   /\ resp'[p] = Response(StatusBadRequest, MsgUserNotExist)
                   /\ UNCHANGED <<usersStore, maps>>]_vars

\* a PUT /rating with valid fields for an e-mail that is not registered has
\* been answered UserNotFound
C17_Witness ==
    /\ RatingOp(raw)
    /\ raw.method = PUT
    /\ raw.email # ""
    /\ raw.url # ""
    /\ raw.rating \in MinRating..MaxRating
    /\ usersStore = newUsers
    /\ pc[raw.proc] = "idle"
    /\ resp[raw.proc] = Response(StatusBadRequest, MsgUserNotExist)

\* C15: a fetch whose provider call succeeded with record I answers 200 with
\* I and maps I.url to I in the cache, over any earlier entry for that url and
\* with every other entry unchanged.  Fetches write one at a time, nothing
\* else changes the cache, and every entry is filed under its own url: an
\* entry is the record of the last fetch that wrote its url.
C15_FetchAndCache ==
    /\ [](\A u \in DOMAIN imageStore : imageStore[u].url = u)
    /\ [](\A p, q \in Procs :
            (pc[p] = "imageStorePut" /\ pc[q] = "imageStorePut") => p = q)
    /\ [][/\ \A p \in Procs :
             (Leaves(p, "httpGet") /\ pc'[p] = "imageStoreLock") =>
                image'[p] \in Images
          /\ \A p \in Procs :
                Leaves(p, "imageStorePut") =>
                   /\ resp'[p].code = StatusOK
                   /\ resp'[p].body = image[p]
                   /\ DOMAIN imageStore' = (DOMAIN imageStore) \cup {image[p].url}
                   /\ imageStore'[image[p].url] = image[p]
                   /\ \A u \in (DOMAIN imageStore) \ {image[p].url} :
                         imageStore'[u] = imageStore[u]
          /\ (\A p \in Procs : ~Leaves(p, "imageStorePut")) =>
                imageStore' = imageStore]_vars

\* a fetch has returned a record whose url the cache now maps to the record
\* of a later fetch
C15_Witness ==
    \E p \in Procs :
       /\ pc[p] = "idle"
       /\ resp[p].code = StatusOK
       /\ resp[p].msg = MsgImage
       /\ resp[p].body.url \in DOMAIN imageStore
       /\ imageStore[resp[p].body.url] # resp[p].body
       /\ Cardinality(DOMAIN imageStore) > 1

\* C16: when the provider call fails - a network error, a body that does not
\* decode, an empty array - the request is answered with a 5xx status, the
\* server keeps running and the cache is unchanged.
C16_ProviderFailureReported ==
    [][\A p \in Procs :
          (pc[p] = "httpGet" /\ (Returns(p) \/ crashed' # crashed))
          => /\ ~crashed'
             /\ resp'[p].code \in 500..599
             /\ imageStore' = imageStore]_vars

====
